---- MODULE Spec2Model ----
(***************************************************************************)
(* Model of master.py: the NYC taxi weekly fact table pipeline.            *)
(*                                                                         *)
(* A DataFrame is a sequence of rows, a row is a record.  A nullable       *)
(* column value is NULL or the one-element tuple Some(v).  An average is   *)
(* NULL or a reduced fraction <<numerator, denominator>>.  A timestamp     *)
(* string of the 2015 input is <<month, day, second of day>>.  Amounts are *)
(* small non-negative integers, for which the sums and the comparisons     *)
(* against a mean that Spark computes in double precision are exact.       *)
(***************************************************************************)
EXTENDS Integers, Sequences, FiniteSets, TLC

VARIABLES pc, s3_input, spark, raw_df, cleaned_df, fact_table_df, s3_output,
          exc, exit_code, stop_calls, log,
          parts, tasks, tip_partial, avg_tip_amount, flag_read, flagged,
          agg_partial, fact_table, gen_partial, avg_weekly_generous,
          lucky_read, tagged

vars == <<pc, s3_input, spark, raw_df, cleaned_df, fact_table_df, s3_output,
          exc, exit_code, stop_calls, log,
          parts, tasks, tip_partial, avg_tip_amount, flag_read, flagged,
          agg_partial, fact_table, gen_partial, avg_weekly_generous,
          lucky_read, tagged>>

mainVars == <<pc, s3_input, spark, raw_df, cleaned_df, fact_table_df,
              s3_output, exc, exit_code, stop_calls, log>>

jobVars == <<parts, tasks, tip_partial, avg_tip_amount, flag_read, flagged,
             agg_partial, fact_table, gen_partial, avg_weekly_generous,
             lucky_read, tagged>>

\* Longest input of the pipeline specification.
MaxLen == 3

\* Longest input and number of partitions of the partitioned specification.
MaxRows == 3
NumPartitions == 2

NULL == <<>>
Some(v) == <<v>>

\* A name that has no value yet; a bound name holds Some(value).
Unbound == <<>>

-----------------------------------------------------------------------------
(* Column functions of pyspark.sql.functions as the pipeline uses them.    *)

RECURSIVE GCD(_, _)
GCD(a, b) == IF b = 0 THEN a ELSE GCD(b, a % b)

\* The quotient s / n as a reduced fraction.
Frac(s, n) == LET g == GCD(s, n) IN <<s \div g, n \div g>>

DaysInMonth == <<31, 28, 31, 30, 31, 30, 31, 31, 30, 31, 30, 31>>

\* A timestamp string parses when it names a date and a time of day of 2015.
Parses(ts) ==
    /\ Len(ts) = 3
    /\ ts[1] \in 1..12
    /\ ts[2] \in 1..DaysInMonth[ts[1]]
    /\ ts[3] \in 0..86399

RECURSIVE DaysBefore(_)
DaysBefore(m) == IF m = 1 THEN 0 ELSE DaysInMonth[m - 1] + DaysBefore(m - 1)

DayOfYear(ts) == DaysBefore(ts[1]) + ts[2]

\* to_date: the date part, NULL for a string that does not parse.
to_date(ts) == IF Parses(ts) THEN Some(<<ts[1], ts[2]>>) ELSE NULL

\* date_format(ts, "HH:mm:ss"): the time part, NULL when unparsable.
date_format(ts) == IF Parses(ts) THEN Some(ts[3]) ELSE NULL

\* dayofweek: 1 = Sunday .. 7 = Saturday; 1 January 2015 is a Thursday.
dayofweek(ts) ==
    IF Parses(ts) THEN Some(((DayOfYear(ts) + 3) % 7) + 1) ELSE NULL

\* weekofyear: the ISO 8601 week; week 1 of 2015 ends on Sunday 4 January.
weekofyear(ts) ==
    IF Parses(ts) THEN Some(((DayOfYear(ts) + 2) \div 7) + 1) ELSE NULL

\* The comparison >= in place of >.
GreaterOrEqual(x, value) ==
    IF value = NULL THEN NULL ELSE Some(x * value[2] >= value[1])

\* col > value: NULL when the value is NULL, else the comparison with the
\* fraction value[1] / value[2].
GreaterThan(x, value) ==
    IF value = NULL THEN NULL ELSE Some(x * value[2] > value[1])

\* cast("int") of a nullable boolean.
CastInt(b) == IF b = NULL THEN NULL ELSE Some(IF b[1] THEN 1 ELSE 0)

-----------------------------------------------------------------------------
(* clean_data                                                              *)

\* df.drop('Ehail_fee') on one row.
DropEhailFee(r) ==
    [VendorID |-> r.VendorID, Trip_type |-> r.Trip_type,
     Payment_type |-> r.Payment_type,
     lpep_pickup_datetime |-> r.lpep_pickup_datetime,
     Lpep_dropoff_datetime |-> r.Lpep_dropoff_datetime,
     Trip_distance |-> r.Trip_distance, Fare_amount |-> r.Fare_amount,
     Extra |-> r.Extra, MTA_tax |-> r.MTA_tax, Tip_amount |-> r.Tip_amount,
     improvement_surcharge |-> r.improvement_surcharge,
     Total_amount |-> r.Total_amount]

MapSeq(F(_), s) == [i \in 1..Len(s) |-> F(s[i])]

Range(s) == {s[i] : i \in 1..Len(s)}

\* dropDuplicates: one row of every set of rows equal in all columns.
RECURSIVE dropDuplicates(_)
dropDuplicates(df) ==
    IF df = <<>> THEN <<>>
    ELSE LET rest == dropDuplicates(SubSeq(df, 1, Len(df) - 1))
             last == df[Len(df)]
         IN IF last \in Range(rest) THEN rest ELSE Append(rest, last)

\* The eight withColumn calls and the drop of the two datetime columns.
DeriveColumns(r) ==
    [VendorID |-> r.VendorID, Trip_type |-> r.Trip_type,
     Payment_type |-> r.Payment_type,
     Trip_distance |-> r.Trip_distance, Fare_amount |-> r.Fare_amount,
     Extra |-> r.Extra, MTA_tax |-> r.MTA_tax, Tip_amount |-> r.Tip_amount,
     improvement_surcharge |-> r.improvement_surcharge,
     Total_amount |-> r.Total_amount,
     Pickup_date |-> to_date(r.lpep_pickup_datetime),
     Dropoff_date |-> to_date(r.Lpep_dropoff_datetime),
     Pickup_time |-> date_format(r.lpep_pickup_datetime),
     Dropoff_time |-> date_format(r.Lpep_dropoff_datetime),
     Pickup_day_of_week |-> dayofweek(r.lpep_pickup_datetime),
     Pickup_week |-> weekofyear(r.lpep_pickup_datetime),
     Dropoff_day_of_week |-> dayofweek(r.Lpep_dropoff_datetime),
     Dropoff_week |-> weekofyear(r.Lpep_dropoff_datetime)]

\* clean_data under a skip policy: the rows with an unparsable timestamp are
\* left out.
clean_data_skipping(df) ==
    MapSeq(DeriveColumns,
           SelectSeq(dropDuplicates(MapSeq(DropEhailFee, df)),
                     LAMBDA r : /\ Parses(r.lpep_pickup_datetime)
                                /\ Parses(r.Lpep_dropoff_datetime)))

clean_data(df) ==
    MapSeq(DeriveColumns, dropDuplicates(MapSeq(DropEhailFee, df)))

-----------------------------------------------------------------------------
(* create_fact_table                                                       *)

\* df.filter(df.Fare_amount > 0)
FilterFare(df) == SelectSeq(df, LAMBDA r : r.Fare_amount > 0)

Extend(r, f) == [x \in (DOMAIN r) \cup (DOMAIN f) |->
                    IF x \in DOMAIN f THEN f[x] ELSE r[x]]

\* withColumn("tip_fraction", col("Tip_amount") / col("Fare_amount"))
WithTipFraction(r) ==
    Extend(r, [tip_fraction |-> Frac(r.Tip_amount, r.Fare_amount)])

\* avg keeps a <<sum, count>> buffer over the non-NULL values it is given,
\* merges the buffers of the partitions and divides at the end.
AvgUpdate(buf, v) == IF v = NULL THEN buf ELSE <<buf[1] + v[1], buf[2] + 1>>

RECURSIVE AvgPartial(_)
AvgPartial(values) ==
    IF values = <<>> THEN <<0, 0>>
    ELSE AvgUpdate(AvgPartial(SubSeq(values, 1, Len(values) - 1)),
                   values[Len(values)])

AvgMerge(b1, b2) == <<b1[1] + b2[1], b1[2] + b2[2]>>

AvgEvaluate(buf) == IF buf[2] = 0 THEN NULL ELSE Frac(buf[1], buf[2])

TipValue(r) == Some(r.Tip_amount)

\* df_filtered.agg(avg("Tip_amount")).collect()[0][0] on one partition
AvgTipAmount(df_filtered) == AvgEvaluate(AvgPartial(MapSeq(TipValue, df_filtered)))

\* col > value on nullable operands.
ColGreaterThan(x, value) ==
    IF x = NULL THEN NULL ELSE GreaterThan(x[1], value)

\* withColumn("Generous_customer_flg", col("Tip_amount") > avg_tip_amount)
WithGenerousFlag(r, avgTip) ==
    Extend(r, [Generous_customer_flg |-> GreaterThan(r.Tip_amount, avgTip)])

\* A groupBy that leaves Pickup_week out of the key.
GroupKeyNoWeek(r) == <<r.VendorID, r.Trip_type, r.Payment_type, NULL>>

\* The grouping columns of groupBy.
GroupKey(r) == <<r.VendorID, r.Trip_type, r.Payment_type, r.Pickup_week>>

\* The aggregation buffer of a group that has seen no row.
EmptyBuffer(k) ==
    [key |-> k, count |-> 0, Trip_distance |-> 0, Fare_amount |-> 0,
     Total_amount |-> 0, Extra |-> 0, MTA_tax |-> 0, Tip_amount |-> 0,
     improvement_surcharge |-> 0, Generous |-> <<0, 0>>]

\* An update whose total amount column sums the fare instead.
BufferUpdateWrongColumn(b, r) ==
    [key |-> b.key, count |-> b.count + 1,
     Trip_distance |-> b.Trip_distance + r.Trip_distance,
     Fare_amount |-> b.Fare_amount + r.Fare_amount,
     Total_amount |-> b.Total_amount + r.Fare_amount,
     Extra |-> b.Extra + r.Extra,
     MTA_tax |-> b.MTA_tax + r.MTA_tax,
     Tip_amount |-> b.Tip_amount + r.Tip_amount,
     improvement_surcharge |-> b.improvement_surcharge + r.improvement_surcharge,
     Generous |-> AvgUpdate(b.Generous, CastInt(r.Generous_customer_flg))]

\* One row added to the buffer of its group.
BufferUpdate(b, r) ==
    [key |-> b.key, count |-> b.count + 1,
     Trip_distance |-> b.Trip_distance + r.Trip_distance,
     Fare_amount |-> b.Fare_amount + r.Fare_amount,
     Total_amount |-> b.Total_amount + r.Total_amount,
     Extra |-> b.Extra + r.Extra,
     MTA_tax |-> b.MTA_tax + r.MTA_tax,
     Tip_amount |-> b.Tip_amount + r.Tip_amount,
     improvement_surcharge |-> b.improvement_surcharge + r.improvement_surcharge,
     Generous |-> AvgUpdate(b.Generous, CastInt(r.Generous_customer_flg))]

\* A merge that keeps the buffer that arrives last.
BufferMergeOverwrite(b1, b2) == b2

\* Two buffers of the same group merged.
BufferMerge(b1, b2) ==
    [key |-> b1.key, count |-> b1.count + b2.count,
     Trip_distance |-> b1.Trip_distance + b2.Trip_distance,
     Fare_amount |-> b1.Fare_amount + b2.Fare_amount,
     Total_amount |-> b1.Total_amount + b2.Total_amount,
     Extra |-> b1.Extra + b2.Extra,
     MTA_tax |-> b1.MTA_tax + b2.MTA_tax,
     Tip_amount |-> b1.Tip_amount + b2.Tip_amount,
     improvement_surcharge |-> b1.improvement_surcharge + b2.improvement_surcharge,
     Generous |-> AvgMerge(b1.Generous, b2.Generous)]

HasKey(bufs, k) == \E i \in 1..Len(bufs) : bufs[i].key = k

IndexOf(bufs, k) == CHOOSE i \in 1..Len(bufs) : bufs[i].key = k

\* The hash aggregate: the row goes to the buffer of its key, a new key
\* opens a buffer.
GroupInsert(bufs, r) ==
    LET k == GroupKey(r)
    IN IF HasKey(bufs, k)
       THEN [bufs EXCEPT ![IndexOf(bufs, k)] = BufferUpdate(@, r)]
       ELSE Append(bufs, BufferUpdate(EmptyBuffer(k), r))

RECURSIVE PartialAggregate(_)
PartialAggregate(df) ==
    IF df = <<>> THEN <<>>
    ELSE GroupInsert(PartialAggregate(SubSeq(df, 1, Len(df) - 1)), df[Len(df)])

\* The buffers of one partition merged into those gathered so far.
RECURSIVE MergeAggregate(_, _)
MergeAggregate(bufs, more) ==
    IF more = <<>> THEN bufs
    ELSE LET b == more[1]
             merged == IF HasKey(bufs, b.key)
                       THEN [bufs EXCEPT ![IndexOf(bufs, b.key)] = BufferMerge(@, b)]
                       ELSE Append(bufs, b)
         IN MergeAggregate(merged, Tail(more))

\* The output row of a group: the eleven aggregate columns of agg.
Finalize(b) ==
    [VendorID |-> b.key[1], Trip_type |-> b.key[2],
     Payment_type |-> b.key[3], Pickup_week |-> b.key[4],
     Total_trip_distance |-> b.Trip_distance,
     Avg_trip_distance |-> Frac(b.Trip_distance, b.count),
     Total_fare_amount |-> b.Fare_amount,
     Avg_fare_amount |-> Frac(b.Fare_amount, b.count),
     Total_total_amount |-> b.Total_amount,
     Total_extra |-> b.Extra,
     Avg_extra |-> Frac(b.Extra, b.count),
     Total_mta_tax |-> b.MTA_tax,
     Avg_tip_amount |-> Frac(b.Tip_amount, b.count),
     Avg_improvement_surcharge |-> Frac(b.improvement_surcharge, b.count),
     Generous_customer_count |->
         IF b.Generous[2] = 0 THEN NULL ELSE Some(b.Generous[1])]

\* groupBy(...).agg(...) on one partition.
GroupByAgg(df) == MapSeq(Finalize, PartialAggregate(df))

GenerousCount(row) == row.Generous_customer_count

\* fact_table.agg(avg("Generous_customer_count")).collect()[0][0]
AvgWeeklyGenerous(table) ==
    AvgEvaluate(AvgPartial(MapSeq(GenerousCount, table)))

\* withColumn("Lucky_flg", col("Generous_customer_count") > avg_weekly_generous)
WithLuckyFlag(row, avgGenerous) ==
    Extend(row, [Lucky_flg |->
                    ColGreaterThan(row.Generous_customer_count, avgGenerous)])

\* The body of create_fact_table, lines 76 to 119.
create_fact_table(df) ==
    LET df_filtered == MapSeq(WithTipFraction, FilterFare(df))
        avgTip == AvgTipAmount(df_filtered)
        df_flagged == MapSeq(LAMBDA r : WithGenerousFlag(r, avgTip), df_filtered)
        table == GroupByAgg(df_flagged)
        avgGenerous == AvgWeeklyGenerous(table)
    IN MapSeq(LAMBDA row : WithLuckyFlag(row, avgGenerous), table)

-----------------------------------------------------------------------------
(* The input: rows of green_tripdata_2015-*.csv.                           *)

BadTimestamp == <<13, 40, 0>>

Trip(vendor, trip, pay, pickup, dropoff, dist, fare, extra, tip, ehail) ==
    [VendorID |-> vendor, Trip_type |-> trip, Payment_type |-> pay,
     lpep_pickup_datetime |-> pickup, Lpep_dropoff_datetime |-> dropoff,
     Trip_distance |-> dist, Fare_amount |-> fare, Extra |-> extra,
     MTA_tax |-> 1, Tip_amount |-> tip, improvement_surcharge |-> vendor - 1,
     Total_amount |-> fare + extra + 1 + tip + (vendor - 1),
     Ehail_fee |-> ehail]

\* Thursday 1 January and Sunday 4 January are in week 1, Monday 5 January
\* is in week 2.
RawRecords ==
    { Trip(1, 1, 1, <<1, 1, 28800>>, <<1, 1, 30600>>, 3, 10, 0, 0, 0),
      Trip(1, 1, 1, <<1, 1, 28800>>, <<1, 1, 30600>>, 3, 10, 0, 0, 1),
      Trip(1, 1, 1, <<1, 4, 61200>>, <<1, 4, 64800>>, 5, 20, 1, 4, 0),
      Trip(1, 1, 1, <<1, 5, 28800>>, <<1, 5, 30600>>, 3, 10, 0, 2, 0),
      Trip(2, 1, 1, <<1, 1, 28800>>, <<1, 1, 30600>>, 3, 10, 1, 2, 0),
      Trip(1, 2, 1, <<1, 1, 28800>>, <<1, 1, 30600>>, 5, 20, 0, 2, 0),
      Trip(1, 1, 2, <<1, 1, 28800>>, <<1, 1, 30600>>, 3, 10, 0, 0, 0),
      Trip(1, 1, 1, <<1, 1, 28800>>, <<1, 1, 30600>>, 3, 0, 0, 4, 0),
      Trip(1, 1, 1, BadTimestamp, <<1, 1, 30600>>, 3, 10, 0, 2, 0),
      Trip(1, 1, 1, <<1, 1, 28800>>, BadTimestamp, 5, 20, 1, 0, 0) }

SeqsUpTo(S, n) == UNION {[1..k -> S] : k \in 0..n}

-----------------------------------------------------------------------------
(* main: one action per call, the except clause and the finally clause.    *)

IdleJob ==
    /\ parts = <<>>
    /\ tasks = <<>>
    /\ tip_partial = <<>>
    /\ avg_tip_amount = Unbound
    /\ flag_read = <<>>
    /\ flagged = <<>>
    /\ agg_partial = <<>>
    /\ fact_table = Unbound
    /\ gen_partial = <<>>
    /\ avg_weekly_generous = Unbound
    /\ lucky_read = <<>>
    /\ tagged = Unbound

Init ==
    /\ s3_input \in SeqsUpTo(RawRecords, MaxLen)
    /\ pc = "create_spark_session"
    /\ spark = Unbound
    /\ raw_df = Unbound
    /\ cleaned_df = Unbound
    /\ fact_table_df = Unbound
    /\ s3_output = Unbound
    /\ exc = "none"
    /\ exit_code = Unbound
    /\ stop_calls = 0
    /\ log = <<>>
    /\ IdleJob

\* A call that raises: its except clause logs and re-raises into main.
Raise(messages) ==
    /\ log' = log \o messages
    /\ exc' = "Exception"
    /\ pc' = "except"

\* spark = create_spark_session()
CreateSparkSession ==
    /\ pc = "create_spark_session"
    /\ \/ /\ spark' = Some("active")
          /\ log' = Append(log, "Spark session created successfully")
          /\ pc' = "read_taxi_data"
          /\ UNCHANGED exc
       \/ /\ Raise(<<"Failed to create Spark session">>)
          /\ UNCHANGED spark
    /\ UNCHANGED <<s3_input, raw_df, cleaned_df, fact_table_df, s3_output,
                   exit_code, stop_calls>>
    /\ UNCHANGED jobVars

\* raw_df = read_taxi_data(spark, input_path)
ReadTaxiData ==
    /\ pc = "read_taxi_data"
    /\ \/ /\ raw_df' = Some(s3_input)
          /\ log' = Append(log, "Reading data")
          /\ pc' = "clean_data"
          /\ UNCHANGED exc
       \/ /\ Raise(<<"Reading data", "Failed to read data">>)
          /\ UNCHANGED raw_df
    /\ UNCHANGED <<s3_input, spark, cleaned_df, fact_table_df, s3_output,
                   exit_code, stop_calls>>
    /\ UNCHANGED jobVars

\* cleaned_df = clean_data(raw_df)
CleanData ==
    /\ pc = "clean_data"
    /\ \/ /\ cleaned_df' = Some(clean_data(raw_df[1]))
          /\ log' = log \o <<"Starting data cleaning process",
                             "Data cleaning completed successfully">>
          /\ pc' = "create_fact_table"
          /\ UNCHANGED exc
       \/ /\ Raise(<<"Starting data cleaning process", "Data cleaning failed">>)
          /\ UNCHANGED cleaned_df
    /\ UNCHANGED <<s3_input, spark, raw_df, fact_table_df, s3_output,
                   exit_code, stop_calls>>
    /\ UNCHANGED jobVars

\* fact_table_df = create_fact_table(cleaned_df)
CreateFactTable ==
    /\ pc = "create_fact_table"
    /\ \/ /\ fact_table_df' = Some(create_fact_table(cleaned_df[1]))
          /\ log' = log \o <<"Creating fact table",
                             "Fact table created successfully">>
          /\ pc' = "save_to_s3"
          /\ UNCHANGED exc
       \/ /\ Raise(<<"Creating fact table", "Failed to create fact table">>)
          /\ UNCHANGED fact_table_df
    /\ UNCHANGED <<s3_input, spark, raw_df, cleaned_df, s3_output,
                   exit_code, stop_calls>>
    /\ UNCHANGED jobVars

\* save_to_s3(fact_table_df, output_path), then the last line of the try body
SaveToS3 ==
    /\ pc = "save_to_s3"
    /\ \/ /\ s3_output' = Some(fact_table_df[1])
          /\ log' = log \o <<"Saving data", "Data saved successfully",
                             "Pipeline completed successfully">>
          /\ pc' = "finally"
          /\ UNCHANGED exc
       \/ /\ Raise(<<"Saving data", "Failed to save data">>)
          /\ UNCHANGED s3_output
    /\ UNCHANGED <<s3_input, spark, raw_df, cleaned_df, fact_table_df,
                   exit_code, stop_calls>>
    /\ UNCHANGED jobVars

\* The except clause without its sys.exit(1): the failure is swallowed.
MainExceptSwallowed ==
    /\ pc = "except"
    /\ log' = Append(log, "Pipeline failed")
    /\ exc' = "none"
    /\ pc' = "finally"
    /\ UNCHANGED <<s3_input, spark, raw_df, cleaned_df, fact_table_df,
                   s3_output, exit_code, stop_calls>>
    /\ UNCHANGED jobVars

\* except Exception as e: logger.error(...); sys.exit(1)
MainExcept ==
    /\ pc = "except"
    /\ log' = Append(log, "Pipeline failed")
    /\ exc' = "SystemExit"
    /\ pc' = "finally"
    /\ UNCHANGED <<s3_input, spark, raw_df, cleaned_df, fact_table_df,
                   s3_output, exit_code, stop_calls>>
    /\ UNCHANGED jobVars

\* The name spark as the finally clause finds it.
SparkIsBound == spark # Unbound

\* finally: spark.stop(); an unbound name raises UnboundLocalError, which
\* replaces the exception in flight.
MainFinally ==
    /\ pc = "finally"
    /\ \/ /\ SparkIsBound
          /\ spark' = Some("stopped")
          /\ stop_calls' = stop_calls + 1
          /\ UNCHANGED exc
       \/ /\ ~SparkIsBound
          /\ exc' = "UnboundLocalError"
          /\ UNCHANGED <<spark, stop_calls>>
    /\ pc' = "exit"
    /\ UNCHANGED <<s3_input, raw_df, cleaned_df, fact_table_df, s3_output,
                   exit_code, log>>
    /\ UNCHANGED jobVars

\* The status the interpreter ends with: 0 after a normal return, the
\* argument of sys.exit, 1 after an uncaught exception.
ExitStatus(e) == IF e = "none" THEN 0 ELSE 1

ProcessExit ==
    /\ pc = "exit"
    /\ exit_code' = Some(ExitStatus(exc))
    /\ pc' = "exited"
    /\ UNCHANGED <<s3_input, spark, raw_df, cleaned_df, fact_table_df,
                   s3_output, exc, stop_calls, log>>
    /\ UNCHANGED jobVars

Next ==
    \/ CreateSparkSession
    \/ ReadTaxiData
    \/ CleanData
    \/ CreateFactTable
    \/ SaveToS3
    \/ MainExcept
    \/ MainFinally
    \/ ProcessExit

Spec == Init /\ [][Next]_vars

-----------------------------------------------------------------------------
(* Properties of main.                                                     *)

Logged(m) == \E i \in 1..Len(log) : log[i] = m

FailureMessages ==
    {"Failed to create Spark session", "Failed to read data",
     "Data cleaning failed", "Failed to create fact table",
     "Failed to save data"}

SuccessMessages ==
    <<"Spark session created successfully", "Reading data",
      "Data cleaning completed successfully",
      "Fact table created successfully", "Data saved successfully">>

\* The stage a log line belongs to: 1 session, 2 read, 3 clean, 4 fact
\* table, 5 write, 6 the two closing lines of main.
StageOf(m) ==
    CASE m \in {"Spark session created successfully",
                "Failed to create Spark session"} -> 1
      [] m \in {"Reading data", "Failed to read data"} -> 2
      [] m \in {"Starting data cleaning process",
                "Data cleaning completed successfully",
                "Data cleaning failed"} -> 3
      [] m \in {"Creating fact table", "Fact table created successfully",
                "Failed to create fact table"} -> 4
      [] m \in {"Saving data", "Data saved successfully",
                "Failed to save data"} -> 5
      [] OTHER -> 6

SomeStageFailed == \E m \in FailureMessages : Logged(m)

NoEligibleRecords(df) == \A i \in 1..Len(df) : ~(df[i].Fare_amount > 0)

\* C1: when no record of the cleaned input has Fare_amount > 0 (an empty
\* input included), the run fails: create_fact_table returns no fact table,
\* save_to_s3 is never invoked and the process exits non-zero.
C1_NoEligibleRecordsFails ==
    (cleaned_df # Unbound /\ NoEligibleRecords(cleaned_df[1])) =>
        /\ fact_table_df = Unbound
        /\ ~Logged("Saving data")
        /\ s3_output = Unbound
        /\ exit_code # Some(0)

\* C2: all or nothing.  A stage runs only after every earlier stage has
\* succeeded, in the order session, read, clean, fact table, write; after a
\* failure nothing but the closing line of main is logged and nothing is
\* written; what is written is the whole fact table; the exit status is 0
\* exactly when no stage failed and is non-zero otherwise.
C2_AllOrNothing ==
    /\ \A i \in 1..Len(log) :
          LET k == StageOf(log[i])
          IN /\ (k \in 2..5) =>
                    \E j \in 1..(i - 1) : log[j] = SuccessMessages[k - 1]
             /\ \A j \in 1..(i - 1) : StageOf(log[j]) <= k
             /\ (log[i] \in FailureMessages) =>
                    \A j \in (i + 1)..Len(log) : log[j] = "Pipeline failed"
    /\ (s3_output # Unbound) =>
          /\ \A k \in 1..5 : Logged(SuccessMessages[k])
          /\ ~SomeStageFailed
          /\ fact_table_df # Unbound
          /\ s3_output = fact_table_df
    /\ (pc = "exited") =>
          /\ SomeStageFailed => (exit_code # Some(0) /\ s3_output = Unbound)
          /\ ~SomeStageFailed => (exit_code = Some(0) /\ s3_output # Unbound)

\* A run in which create_fact_table failed after three good stages.
C2_Witness ==
    /\ pc = "exited"
    /\ Logged("Data cleaning completed successfully")
    /\ Logged("Failed to create fact table")
    /\ exit_code = Some(1)
    /\ s3_output = Unbound

\* C10: the session is stopped exactly once on every path on which it was
\* created, stop is never attempted on a session that does not exist, and
\* the cleanup raises no error that replaces the reported failure.
C10_SessionLifecycle ==
    (pc \in {"exit", "exited"}) =>
        /\ Logged("Spark session created successfully") => stop_calls = 1
        /\ ~Logged("Spark session created successfully") => stop_calls = 0
        /\ exc # "UnboundLocalError"
        /\ SomeStageFailed => exc = "SystemExit"

-----------------------------------------------------------------------------
(* Properties of clean_data and create_fact_table, stated on the rows      *)
(* themselves: index sets, sums over index sets, cross-multiplication.     *)

RowKey(r) == <<r.VendorID, r.Trip_type, r.Payment_type, r.Pickup_week>>

Eligible(df) == {i \in 1..Len(df) : df[i].Fare_amount > 0}

RECURSIVE SumOver(_, _)
SumOver(I, f) ==
    IF I = {} THEN 0
    ELSE LET i == CHOOSE x \in I : TRUE IN f[i] + SumOver(I \ {i}, f)

Column(df, name) == [i \in 1..Len(df) |-> df[i][name]]

\* a is the quotient sum / n.
IsQuotient(a, sum, n) == n > 0 /\ a # NULL /\ a[2] > 0 /\ a[1] * n = sum * a[2]

\* The eligible rows whose tip is above the mean tip of the eligible rows.
AboveMeanTip(df) ==
    LET E == Eligible(df)
        total == SumOver(E, Column(df, "Tip_amount"))
    IN {i \in E : df[i].Tip_amount * Cardinality(E) > total}

\* C5: the keys of the fact table are the distinct keys of the fare-filtered
\* records, and no key has two rows.
C5_GroupingCompleteness ==
    (fact_table_df # Unbound) =>
        LET table == fact_table_df[1]
            df == cleaned_df[1]
        IN /\ {RowKey(table[j]) : j \in 1..Len(table)} =
                  {RowKey(df[i]) : i \in Eligible(df)}
           /\ \A j, k \in 1..Len(table) :
                  RowKey(table[j]) = RowKey(table[k]) => j = k

\* Three eligible records in two groups.
C5_Witness ==
    /\ fact_table_df # Unbound
    /\ Cardinality(Eligible(cleaned_df[1])) = 3
    /\ Len(fact_table_df[1]) = 2

\* C7: every Total_* column is the sum of its field over the fare-filtered
\* records of the group, every Avg_* column is that sum divided by the
\* number of records of the group, and Generous_customer_count is the number
\* of generous records of the group.
C7_AggregationCorrectness ==
    (fact_table_df # Unbound) =>
        LET table == fact_table_df[1]
            df == cleaned_df[1]
        IN \A j \in 1..Len(table) :
              LET row == table[j]
                  G == {i \in Eligible(df) : RowKey(df[i]) = RowKey(row)}
                  n == Cardinality(G)
                  Sum(name) == SumOver(G, Column(df, name))
              IN /\ row.Total_trip_distance = Sum("Trip_distance")
                 /\ row.Total_fare_amount = Sum("Fare_amount")
                 /\ row.Total_total_amount = Sum("Total_amount")
                 /\ row.Total_extra = Sum("Extra")
                 /\ row.Total_mta_tax = Sum("MTA_tax")
                 /\ IsQuotient(row.Avg_trip_distance, Sum("Trip_distance"), n)
                 /\ IsQuotient(row.Avg_fare_amount, Sum("Fare_amount"), n)
                 /\ IsQuotient(row.Avg_extra, Sum("Extra"), n)
                 /\ IsQuotient(row.Avg_tip_amount, Sum("Tip_amount"), n)
                 /\ IsQuotient(row.Avg_improvement_surcharge,
                               Sum("improvement_surcharge"), n)
                 /\ row.Generous_customer_count =
                        Some(Cardinality(G \cap AboveMeanTip(df)))

\* Two records of one key, distances 3 and 5, fares 10 and 20.
C7_Witness ==
    /\ fact_table_df # Unbound
    /\ \E j \in 1..Len(fact_table_df[1]) :
          LET row == fact_table_df[1][j]
          IN /\ row.Total_trip_distance = 8
             /\ row.Avg_trip_distance = <<4, 1>>
             /\ row.Total_fare_amount = 30
             /\ row.Avg_fare_amount = <<15, 1>>
             /\ Cardinality({i \in Eligible(cleaned_df[1]) :
                    RowKey(cleaned_df[1][i]) = RowKey(row)}) = 2

HasBadTimestamp(df) ==
    \E i \in 1..Len(df) : \/ df[i].lpep_pickup_datetime = BadTimestamp
                          \/ df[i].Lpep_dropoff_datetime = BadTimestamp

SameTrip(c, r) ==
    /\ c.VendorID = r.VendorID
    /\ c.Trip_type = r.Trip_type
    /\ c.Payment_type = r.Payment_type
    /\ c.Trip_distance = r.Trip_distance
    /\ c.Fare_amount = r.Fare_amount
    /\ c.Extra = r.Extra
    /\ c.Tip_amount = r.Tip_amount
    /\ c.Total_amount = r.Total_amount

PickupIsNull(c) ==
    /\ c.Pickup_date = NULL
    /\ c.Pickup_time = NULL
    /\ c.Pickup_day_of_week = NULL
    /\ c.Pickup_week = NULL

PickupIsSet(c) ==
    /\ c.Pickup_date # NULL
    /\ c.Pickup_time # NULL
    /\ c.Pickup_day_of_week # NULL
    /\ c.Pickup_week # NULL

DropoffIsNull(c) ==
    /\ c.Dropoff_date = NULL
    /\ c.Dropoff_time = NULL
    /\ c.Dropoff_day_of_week = NULL
    /\ c.Dropoff_week = NULL

DropoffIsSet(c) ==
    /\ c.Dropoff_date # NULL
    /\ c.Dropoff_time # NULL
    /\ c.Dropoff_day_of_week # NULL
    /\ c.Dropoff_week # NULL

-----------------------------------------------------------------------------
(* create_fact_table as Spark runs it: the rows are spread over partitions,*)
(* every collect() is a job of one task per partition (or per group) whose *)
(* results the driver waits for, and the tasks of a job run in any order.  *)

Partitions == 1..NumPartitions

ParRecords ==
    { Trip(1, 1, 1, <<1, 1, 28800>>, <<1, 1, 30600>>, 3, 10, 0, 0, 0),
      Trip(1, 1, 1, <<1, 4, 61200>>, <<1, 4, 64800>>, 5, 20, 1, 4, 0),
      Trip(1, 1, 1, <<1, 5, 28800>>, <<1, 5, 30600>>, 3, 10, 0, 2, 0),
      Trip(2, 1, 1, <<1, 1, 28800>>, <<1, 1, 30600>>, 3, 10, 1, 2, 0),
      Trip(1, 1, 1, <<1, 1, 28800>>, <<1, 1, 30600>>, 3, 0, 0, 4, 0) }

\* The rows of df that the assignment sends to partition p, in their order.
RECURSIVE PartitionOf(_, _, _)
PartitionOf(df, assign, p) ==
    IF df = <<>> THEN <<>>
    ELSE LET n == Len(df)
             rest == PartitionOf(SubSeq(df, 1, n - 1), assign, p)
         IN IF assign[n] = p THEN Append(rest, df[n]) ELSE rest

\* The state of main after read_taxi_data has returned.
InitPar ==
    /\ s3_input \in SeqsUpTo(ParRecords, MaxRows)
    /\ pc = "clean_data"
    /\ spark = Some("active")
    /\ raw_df = Some(s3_input)
    /\ cleaned_df = Unbound
    /\ fact_table_df = Unbound
    /\ s3_output = Unbound
    /\ exc = "none"
    /\ exit_code = Unbound
    /\ stop_calls = 0
    /\ log = <<"Spark session created successfully", "Reading data">>
    /\ parts = <<>>
    /\ tasks = [tip |-> {}, agg |-> {}, gen |-> {}, lucky |-> {}]
    /\ tip_partial = <<0, 0>>
    /\ avg_tip_amount = Unbound
    /\ flag_read = [p \in Partitions |-> Unbound]
    /\ flagged = [p \in Partitions |-> Unbound]
    /\ agg_partial = <<>>
    /\ fact_table = Unbound
    /\ gen_partial = <<0, 0>>
    /\ avg_weekly_generous = Unbound
    /\ lucky_read = <<>>
    /\ tagged = <<>>

\* clean_data, and the rows of its result spread over the partitions.
CleanPartitioned ==
    /\ pc = "clean_data"
    /\ cleaned_df' = Some(clean_data(raw_df[1]))
    /\ \E assign \in [1..Len(cleaned_df'[1]) -> Partitions] :
          parts' = [p \in Partitions |-> PartitionOf(cleaned_df'[1], assign, p)]
    /\ log' = log \o <<"Starting data cleaning process",
                       "Data cleaning completed successfully",
                       "Creating fact table">>
    /\ pc' = "collect_avg_tip"
    /\ UNCHANGED <<s3_input, spark, raw_df, fact_table_df, s3_output, exc,
                   exit_code, stop_calls>>
    /\ UNCHANGED <<tasks, tip_partial, avg_tip_amount, flag_read, flagged,
                   agg_partial, fact_table, gen_partial, avg_weekly_generous,
                   lucky_read, tagged>>

\* The filter and the tip_fraction column on the rows of one partition.
FilteredPartition(rows) == MapSeq(WithTipFraction, FilterFare(rows))

\* The partial average taken before the fare filter.
TipPartialUnfiltered(rows) == AvgPartial(MapSeq(TipValue, rows))

\* The partial average of Tip_amount that the task of one partition emits.
TipPartial(rows) == AvgPartial(MapSeq(TipValue, FilteredPartition(rows)))

\* A task of the job of line 85: its partial average joins the reduction.
TipTask(p) ==
    /\ pc = "collect_avg_tip"
    /\ p \notin tasks.tip
    /\ tip_partial' = AvgMerge(tip_partial, TipPartial(parts[p]))
    /\ tasks' = [tasks EXCEPT !.tip = @ \cup {p}]
    /\ UNCHANGED mainVars
    /\ UNCHANGED <<parts, avg_tip_amount, flag_read, flagged, agg_partial,
                   fact_table, gen_partial, avg_weekly_generous, lucky_read,
                   tagged>>

\* A collect() that returns with the first task that finishes.
JobAnyDone(done, all) == done # {} \/ all = {}

\* collect() returns when every task of its job has finished.
JobDone(done, all) == done = all

\* avg_tip_amount = ... .collect()[0][0]
CollectAvgTip ==
    /\ pc = "collect_avg_tip"
    /\ JobDone(tasks.tip, Partitions)
    /\ avg_tip_amount' = Some(AvgEvaluate(tip_partial))
    /\ pc' = "collect_avg_generous"
    /\ UNCHANGED <<s3_input, spark, raw_df, cleaned_df, fact_table_df,
                   s3_output, exc, exit_code, stop_calls, log>>
    /\ UNCHANGED <<parts, tasks, tip_partial, flag_read, flagged, agg_partial,
                   fact_table, gen_partial, avg_weekly_generous, lucky_read,
                   tagged>>

\* A task of the job of lines 109 to 111: the rows of one partition get
\* their Generous_customer_flg from the literal in the plan and are
\* aggregated into the buffers of their groups.
AggTask(p) ==
    /\ pc = "collect_avg_generous"
    /\ fact_table = Unbound
    /\ p \notin tasks.agg
    /\ flag_read' = [flag_read EXCEPT ![p] = avg_tip_amount]
    /\ flagged' = [flagged EXCEPT ![p] =
          Some(MapSeq(LAMBDA r : WithGenerousFlag(r, avg_tip_amount[1]),
                      FilteredPartition(parts[p])))]
    /\ agg_partial' = MergeAggregate(agg_partial, PartialAggregate(flagged'[p][1]))
    /\ tasks' = [tasks EXCEPT !.agg = @ \cup {p}]
    /\ UNCHANGED mainVars
    /\ UNCHANGED <<parts, tip_partial, avg_tip_amount, fact_table, gen_partial,
                   avg_weekly_generous, lucky_read, tagged>>

\* The end of the aggregation stage: the buffers become the rows of
\* fact_table.
GroupsComplete ==
    /\ pc = "collect_avg_generous"
    /\ fact_table = Unbound
    /\ JobDone(tasks.agg, Partitions)
    /\ fact_table' = Some(MapSeq(Finalize, agg_partial))
    /\ lucky_read' = [g \in 1..Len(agg_partial) |-> Unbound]
    /\ tagged' = [g \in 1..Len(agg_partial) |-> Unbound]
    /\ UNCHANGED mainVars
    /\ UNCHANGED <<parts, tasks, tip_partial, avg_tip_amount, flag_read,
                   flagged, agg_partial, gen_partial, avg_weekly_generous>>

\* The Generous_customer_count of one group joins the reduction of the
\* average over the groups.
GenerousTask(g) ==
    /\ pc = "collect_avg_generous"
    /\ fact_table # Unbound
    /\ g \in 1..Len(fact_table[1])
    /\ g \notin tasks.gen
    /\ gen_partial' = AvgUpdate(gen_partial, GenerousCount(fact_table[1][g]))
    /\ tasks' = [tasks EXCEPT !.gen = @ \cup {g}]
    /\ UNCHANGED mainVars
    /\ UNCHANGED <<parts, tip_partial, avg_tip_amount, flag_read, flagged,
                   agg_partial, fact_table, avg_weekly_generous, lucky_read,
                   tagged>>

\* avg_weekly_generous = ... .collect()[0][0]
CollectAvgGenerous ==
    /\ pc = "collect_avg_generous"
    /\ fact_table # Unbound
    /\ JobDone(tasks.gen, 1..Len(fact_table[1]))
    /\ avg_weekly_generous' = Some(AvgEvaluate(gen_partial))
    /\ pc' = "with_lucky_flg"
    /\ UNCHANGED <<s3_input, spark, raw_df, cleaned_df, fact_table_df,
                   s3_output, exc, exit_code, stop_calls, log>>
    /\ UNCHANGED <<parts, tasks, tip_partial, avg_tip_amount, flag_read,
                   flagged, agg_partial, fact_table, gen_partial, lucky_read,
                   tagged>>

\* One group gets its Lucky_flg from the literal in the plan.
LuckyTask(g) ==
    /\ pc = "with_lucky_flg"
    /\ g \in 1..Len(fact_table[1])
    /\ g \notin tasks.lucky
    /\ lucky_read' = [lucky_read EXCEPT ![g] = avg_weekly_generous]
    /\ tagged' = [tagged EXCEPT ![g] =
          Some(WithLuckyFlag(fact_table[1][g], avg_weekly_generous[1]))]
    /\ tasks' = [tasks EXCEPT !.lucky = @ \cup {g}]
    /\ UNCHANGED mainVars
    /\ UNCHANGED <<parts, tip_partial, avg_tip_amount, flag_read, flagged,
                   agg_partial, fact_table, gen_partial, avg_weekly_generous>>

\* The fact table with its Lucky_flg column is the value of fact_table_df.
FactTableComplete ==
    /\ pc = "with_lucky_flg"
    /\ JobDone(tasks.lucky, 1..Len(fact_table[1]))
    /\ fact_table_df' = Some([g \in 1..Len(tagged) |-> tagged[g][1]])
    /\ log' = Append(log, "Fact table created successfully")
    /\ pc' = "save_to_s3"
    /\ UNCHANGED <<s3_input, spark, raw_df, cleaned_df, s3_output, exc,
                   exit_code, stop_calls>>
    /\ UNCHANGED jobVars

NextPar ==
    \/ CleanPartitioned
    \/ \E p \in Partitions : TipTask(p)
    \/ CollectAvgTip
    \/ \E p \in Partitions : AggTask(p)
    \/ GroupsComplete
    \/ \E g \in 1..MaxRows : GenerousTask(g)
    \/ CollectAvgGenerous
    \/ \E g \in 1..MaxRows : LuckyTask(g)
    \/ FactTableComplete

SpecPar == InitPar /\ [][NextPar]_vars

-----------------------------------------------------------------------------
(* Properties of the partitioned run.                                      *)

\* a is the mean of the values f[i], i in I: NULL over no value.
IsMean(a, I, f) ==
    IF I = {} THEN a = NULL ELSE IsQuotient(a, SumOver(I, f), Cardinality(I))

GroupCounts == [g \in 1..Len(fact_table[1]) |->
                   fact_table[1][g].Generous_customer_count[1]]

BarrierHolds ==
    /\ \A p \in Partitions :
          (flagged[p] # Unbound) =>
              /\ tasks.tip = Partitions
              /\ avg_tip_amount # Unbound
              /\ flag_read[p] = avg_tip_amount
              /\ IsMean(flag_read[p][1], Eligible(cleaned_df[1]),
                        Column(cleaned_df[1], "Tip_amount"))
    /\ \A g \in 1..Len(tagged) :
          (tagged[g] # Unbound) =>
              /\ tasks.agg = Partitions
              /\ tasks.gen = 1..Len(fact_table[1])
              /\ avg_weekly_generous # Unbound
              /\ lucky_read[g] = avg_weekly_generous
              /\ IsMean(lucky_read[g][1], 1..Len(fact_table[1]), GroupCounts)

WriteOnce ==
    /\ (avg_tip_amount # Unbound) => (avg_tip_amount' = avg_tip_amount)
    /\ (avg_weekly_generous # Unbound) =>
          (avg_weekly_generous' = avg_weekly_generous)

\* C3: no record gets its Generous_customer_flg before the mean tip has been
\* reduced over every partition, no group gets its Lucky_flg before the mean
\* count has been reduced over every group, every tagging step reads the
\* final value of its statistic, and a statistic once written never changes.
C3_TwoPhaseBarrier == [](BarrierHolds) /\ [][WriteOnce]_vars

\* Eligible rows in both partitions, one partition tagged and the other not
\* yet.
C3_Witness ==
    /\ pc = "collect_avg_generous"
    /\ \A p \in Partitions : FilterFare(parts[p]) # <<>>
    /\ \E p, q \in Partitions : flagged[p] # Unbound /\ flagged[q] = Unbound

\* The index in rows of its k-th row with Fare_amount > 0.
NthEligible(rows, k) ==
    CHOOSE i \in Eligible(rows) :
        Cardinality({j \in Eligible(rows) : j <= i}) = k

\* C4: the flagged rows of a partition are its rows with Fare_amount > 0,
\* and a row is flagged generous exactly when its tip is strictly above the
\* mean tip of all rows with Fare_amount > 0 of the run, whatever the
\* partition or the group of the row.
C4_MeanThreshold ==
    \A p \in Partitions :
        (flagged[p] # Unbound) =>
            LET rows == flagged[p][1]
                src == parts[p]
                df == cleaned_df[1]
            IN /\ Len(rows) = Cardinality(Eligible(src))
               /\ \A k \in 1..Len(rows) :
                     LET r == src[NthEligible(src, k)]
                     IN /\ \A name \in DOMAIN r : rows[k][name] = r[name]
                        /\ rows[k].Generous_customer_flg[1] <=>
                              (\E i \in AboveMeanTip(df) : df[i] = r)

\* Both partitions tagged, one row generous and one not, and a record with
\* Fare_amount = 0 in the input.
C4_Witness ==
    /\ \A p \in Partitions : flagged[p] # Unbound /\ flagged[p][1] # <<>>
    /\ \E p, q \in Partitions :
          /\ flagged[p][1][1].Generous_customer_flg = Some(TRUE)
          /\ flagged[q][1][1].Generous_customer_flg = Some(FALSE)
    /\ Cardinality(Eligible(cleaned_df[1])) < Len(cleaned_df[1])

(* The fact table as a function of the set of input records.               *)

RetainedRecords == {DropEhailFee(s3_input[i]) : i \in 1..Len(s3_input)}

EligibleRecords == {r \in RetainedRecords : r.Fare_amount > 0}

RECURSIVE SumSet(_, _)
SumSet(S, name) ==
    IF S = {} THEN 0
    ELSE LET r == CHOOSE x \in S : TRUE IN r[name] + SumSet(S \ {r}, name)

GenerousRecords ==
    {r \in EligibleRecords :
        r.Tip_amount * Cardinality(EligibleRecords) >
            SumSet(EligibleRecords, "Tip_amount")}

ExpectedKey(r) ==
    <<r.VendorID, r.Trip_type, r.Payment_type,
      weekofyear(r.lpep_pickup_datetime)>>

ExpectedKeys == {ExpectedKey(r) : r \in EligibleRecords}

ExpectedCount(k) ==
    Cardinality({r \in GenerousRecords : ExpectedKey(r) = k})

RECURSIVE TotalCount(_)
TotalCount(K) ==
    IF K = {} THEN 0
    ELSE LET k == CHOOSE x \in K : TRUE
         IN ExpectedCount(k) + TotalCount(K \ {k})

ExpectedRow(k) ==
    LET G == {r \in EligibleRecords : ExpectedKey(r) = k}
        n == Cardinality(G)
    IN [VendorID |-> k[1], Trip_type |-> k[2], Payment_type |-> k[3],
        Pickup_week |-> k[4],
        Total_trip_distance |-> SumSet(G, "Trip_distance"),
        Avg_trip_distance |-> Frac(SumSet(G, "Trip_distance"), n),
        Total_fare_amount |-> SumSet(G, "Fare_amount"),
        Avg_fare_amount |-> Frac(SumSet(G, "Fare_amount"), n),
        Total_total_amount |-> SumSet(G, "Total_amount"),
        Total_extra |-> SumSet(G, "Extra"),
        Avg_extra |-> Frac(SumSet(G, "Extra"), n),
        Total_mta_tax |-> SumSet(G, "MTA_tax"),
        Avg_tip_amount |-> Frac(SumSet(G, "Tip_amount"), n),
        Avg_improvement_surcharge |-> Frac(SumSet(G, "improvement_surcharge"), n),
        Generous_customer_count |-> Some(ExpectedCount(k)),
        Lucky_flg |-> Some(ExpectedCount(k) * Cardinality(ExpectedKeys) >
                              TotalCount(ExpectedKeys))]

-----------------------------------------------------------------------------
(* The Lucky_flg step of create_fact_table on its own, on fact tables of   *)
(* up to MaxGroups groups with up to MaxCount generous customers each.     *)

MaxGroups == 3
MaxCount == 9

\* The aggregation buffer of week w after g generous trips (fare 10, tip 4)
\* and one trip without tip.
GroupBuffer(w, g) ==
    [key |-> <<1, 1, 1, Some(w)>>, count |-> g + 1,
     Trip_distance |-> 3 * (g + 1), Fare_amount |-> 10 * (g + 1),
     Total_amount |-> 11 * (g + 1) + 4 * g, Extra |-> 0, MTA_tax |-> g + 1,
     Tip_amount |-> 4 * g, improvement_surcharge |-> 0,
     Generous |-> <<g, g + 1>>]

InitLucky ==
    /\ \E n \in 0..MaxGroups : \E counts \in [1..n -> 0..MaxCount] :
          fact_table = Some([w \in 1..n |-> Finalize(GroupBuffer(w, counts[w]))])
    /\ pc = "collect_avg_generous"
    /\ s3_input = <<>>
    /\ spark = Some("active")
    /\ raw_df = Unbound
    /\ cleaned_df = Unbound
    /\ fact_table_df = Unbound
    /\ s3_output = Unbound
    /\ exc = "none"
    /\ exit_code = Unbound
    /\ stop_calls = 0
    /\ log = <<>>
    /\ parts = <<>>
    /\ tasks = <<>>
    /\ tip_partial = <<>>
    /\ avg_tip_amount = Unbound
    /\ flag_read = <<>>
    /\ flagged = <<>>
    /\ agg_partial = <<>>
    /\ gen_partial = <<>>
    /\ avg_weekly_generous = Unbound
    /\ lucky_read = <<>>
    /\ tagged = <<>>

\* Lines 109 to 116 on the whole table.
AddLuckyFlag ==
    /\ pc = "collect_avg_generous"
    /\ avg_weekly_generous' = Some(AvgWeeklyGenerous(fact_table[1]))
    /\ fact_table_df' =
          Some(MapSeq(LAMBDA row : WithLuckyFlag(row, avg_weekly_generous'[1]),
                      fact_table[1]))
    /\ pc' = "save_to_s3"
    /\ UNCHANGED <<s3_input, spark, raw_df, cleaned_df, s3_output, exc,
                   exit_code, stop_calls, log>>
    /\ UNCHANGED <<parts, tasks, tip_partial, avg_tip_amount, flag_read,
                   flagged, agg_partial, fact_table, gen_partial, lucky_read,
                   tagged>>

NextLucky == AddLuckyFlag

SpecLucky == InitLucky /\ [][NextLucky]_vars

\* C6: a group is lucky exactly when its Generous_customer_count is
\* strictly above the mean Generous_customer_count of the groups of the
\* table; the other columns of the row are kept.
C6_LuckyFlag ==
    (pc = "save_to_s3") =>
        LET out == fact_table_df[1]
            n == Len(fact_table[1])
        IN /\ Len(out) = n
           /\ \A g \in 1..n :
                 /\ \A name \in DOMAIN fact_table[1][g] :
                        out[g][name] = fact_table[1][g][name]
                 /\ out[g].Lucky_flg[1] <=>
                        (GroupCounts[g] * n > SumOver(1..n, GroupCounts))

\* Three groups with counts 2, 4 and 9: only the group of 9 is lucky.
C6_Witness ==
    /\ pc = "save_to_s3"
    /\ Len(fact_table_df[1]) = 3
    /\ [g \in 1..3 |-> fact_table_df[1][g].Generous_customer_count] =
          <<Some(2), Some(4), Some(9)>>
    /\ [g \in 1..3 |-> fact_table_df[1][g].Lucky_flg] =
          <<Some(FALSE), Some(FALSE), Some(TRUE)>>

====
